---- MODULE Spec2Model ----
(***************************************************************************)
(* A model of three of the example applications of the repository:        *)
(*   - the sidekick worker/evaluator graphs (4_langgraph: the             *)
(*     adriana_sidekick_eventplanner, AzureOpenAI and sidekick_vinamra    *)
(*     variants),                                                         *)
(*   - the deep_research_vinamra pipeline (ResearchManager and its UI),   *)
(*   - the research_agent_with_updates streaming generator.               *)
(* Each application has its own specification over its own variables; the *)
(* variables of the other applications stay at their initial values.      *)
(***************************************************************************)
EXTENDS Integers, Sequences, FiniteSets, TLC

VARIABLES
    \* ---- sidekick (one Sidekick object, one run_superstep) ----
    variant,          \* which sidekick.py is running
    node,             \* position of the graph execution
    state,            \* the LangGraph State mapping
    user_message,     \* the message argument of run_superstep
    system_message,   \* the system prompt built by the last worker call
    worker_calls,     \* number of worker invocations so far
    history,          \* the chat history returned by run_superstep
    \* ---- deep_research_vinamra: one ResearchManager.run ----
    run_pc,           \* position of the run() generator
    log,              \* what run() has yielded, invoked and completed, in order
    query_timestamps, \* rate_limiter.query_timestamps of this ResearchManager
    clock,            \* time.time()
    run_query,        \* the query argument of run()
    tasks,            \* perform_searches: the search tasks, by plan position
    completed,        \* plan positions in the order their tasks completed
    num_completed,    \* perform_searches: results taken from as_completed
    results,          \* perform_searches: the results list
    report,           \* the ReportData returned by write_report
    \* ---- deep_research_vinamra: the Gradio UI process (deep_research.py) ----
    clarifying_state, \* the module-level dict clarifying_state
    buttons,          \* per UI session: visibility of its widgets
    context_run,      \* the run_research_with_context call of the last step, if any
    passed,           \* times, within the last hour, at which a run passed its rate-limit check
    limited,          \* number of started runs that were rate limited
    \* ---- research_agent_with_updates: one generate_responses call ----
    queue,            \* the asyncio.Queue between run_agent and the generator
    task,             \* state of the background run_agent task
    gen_pc,           \* position of the generate_responses generator
    streamed          \* what generate_responses has yielded

sk_vars == <<variant, node, state, user_message, system_message, worker_calls, history>>

run_vars == <<run_pc, log, query_timestamps, clock, run_query, tasks, completed,
              num_completed, results, report>>

ui_vars == <<clarifying_state, buttons, context_run, passed, limited>>

ag_vars == <<queue, task, gen_pc, streamed>>

vars == <<sk_vars, run_vars, ui_vars, ag_vars>>

\* The variables each application leaves alone.
not_sk == <<run_vars, ui_vars, ag_vars>>
not_run == <<sk_vars, ui_vars, ag_vars>>
not_ui == <<sk_vars, ag_vars>>
not_ag == <<sk_vars, run_vars, ui_vars>>

(***************************************************************************)
(* Python values                                                           *)
(***************************************************************************)
\* Python's None where a string is expected.
None == "<None>"

\* Truthiness of an Optional[str].
Truthy(s) == s # None /\ s # ""

Last(s) == s[Len(s)]

(***************************************************************************)
(* SIDEKICK                                                                *)
(***************************************************************************)
Variants == {"adriana", "azure", "vinamra"}

\* Bound on the worker invocations of one run_superstep (the code has none).
MaxWorkerCalls == 3

\* GuardrailsManager(max_tokens=8000)
max_tokens == 8000

\* User messages: the text, its length in characters, the SENSITIVE_PATTERNS
\* and HARMFUL_KEYWORDS it matches.
UserMessages ==
    { [text |-> "find events", len |-> 11,    sensitive |-> {},        harmful |-> FALSE],
      [text |-> "long text",   len |-> 32004, sensitive |-> {},        harmful |-> FALSE],
      [text |-> "mail a@b.co", len |-> 11,    sensitive |-> {"email"}, harmful |-> FALSE],
      [text |-> "hack it",     len |-> 7,     sensitive |-> {},        harmful |-> TRUE] }

SuccessCriteria == {"", "criteria"}

\* Feedback strings the evaluator LLM may return.
Feedbacks == {"", "needs work"}

\* Messages of the graph state. The content is a sequence of text parts; the
\* empty sequence is the empty string.
HumanMessage(text) == [type |-> "human", content |-> <<text>>, tool_calls |-> FALSE]
AIMessage(content) == [type |-> "ai", content |-> content, tool_calls |-> FALSE]
ToolMessage == [type |-> "tool", content |-> <<"tool result">>, tool_calls |-> FALSE]

\* An answer whose text matches the "phone" entry of SENSITIVE_PATTERNS.
SensitiveAnswer == AIMessage(<<"call 555-123-4567">>)

\* What the worker LLM (bound to the tools) may answer: a final answer, an
\* answer with sensitive data in it, a question to the user, or a request
\* for tool calls.
WorkerResponses ==
    { AIMessage(<<"answer">>),
      SensitiveAnswer,
      AIMessage(<<"question?">>),
      [type |-> "ai", content |-> << >>, tool_calls |-> TRUE] }


(***************************************************************************)
(* sidekick_vinamra/guardrails.py: GuardrailsManager                       *)
(***************************************************************************)
check_sensitive_data(m) == [found |-> m.sensitive # {}, types |-> m.sensitive]

check_harmful_content(m) == [is_harmful |-> m.harmful]

check_token_limit(m) ==
    [within_limit |-> (m.len \div 4) <= max_tokens, estimated_tokens |-> m.len \div 4]

\* llm is the outcome of the moderation LLM call: "safe", "unsafe" or "raise".
moderate_content(m, llm) ==
    IF check_sensitive_data(m).found
    THEN [is_safe |-> FALSE, category |-> "sensitive_data"]
    ELSE IF check_harmful_content(m).is_harmful
    THEN [is_safe |-> FALSE, category |-> "harmful_content"]
    ELSE IF llm = "unsafe"
    THEN [is_safe |-> FALSE, category |-> "llm"]
    ELSE [is_safe |-> TRUE, category |-> None]

TooLongIssue == "Message too long"
SensitiveWarning == "(!) Warning: Message contains sensitive data"
FlaggedIssue == "(x) Content flagged"

\* The emoji an issue text of validate_input starts with, as code points.
IssueMark(issue) ==
    IF issue = SensitiveWarning THEN "U+26A0 U+FE0F"
    ELSE IF issue = FlaggedIssue THEN "U+274C"
    ELSE None

\* The string run_superstep looks for in an issue: in sidekick.py it is
\* the warning sign's bytes read in another encoding.
WarningMark == "U+201A U+00F6 U+2020 U+00D4 U+220F U+00E8"

\* The test  WarningMark in issue  of run_superstep.
IsWarning(issue) == IssueMark(issue) = WarningMark

\* A validation that does not look at the token limit.
validate_input_ignores_token_limit(m, llm) ==
    [is_valid |-> moderate_content(m, llm).is_safe,
     issues |-> IF moderate_content(m, llm).is_safe THEN << >> ELSE <<FlaggedIssue>>,
     moderation |-> moderate_content(m, llm)]

validate_input(m, llm) ==
    LET token_check == check_token_limit(m)
        moderation == moderate_content(m, llm)
        issues == (IF token_check.within_limit THEN << >> ELSE <<TooLongIssue>>)
                  \o (IF check_sensitive_data(m).found THEN <<SensitiveWarning>> ELSE << >>)
                  \o (IF moderation.is_safe THEN << >> ELSE <<FlaggedIssue>>)
    IN  [is_valid |-> moderation.is_safe /\ token_check.within_limit,
         issues |-> issues,
         moderation |-> moderation]

(***************************************************************************)
(* The routers of the three graphs                                         *)
(***************************************************************************)
intake_router(s) == IF s.user_input_needed THEN "END" ELSE "worker"

\* The node a worker response without tool calls is routed to.
AfterWorker(v) == IF v = "vinamra" THEN "clarification_check" ELSE "evaluator"

\* A router that never sends the worker's tool calls to the tool node.
worker_router_ignores_tool_calls(v, s) == AfterWorker(v)

worker_router(v, s) ==
    IF Last(s.messages).tool_calls THEN "tools" ELSE AfterWorker(v)

route_after_clarification_check(s) ==
    IF s.user_input_needed THEN "END" ELSE "evaluator"

\* A router without the edge back to the worker.
route_always_end(s) == "END"

\* A router with a retry bound: it gives up after the second attempt.
route_with_retry_bound(s) ==
    IF s.success_criteria_met \/ s.user_input_needed \/ worker_calls >= 2 THEN "END"
    ELSE "worker"

route_based_on_evaluation(s) ==
    IF s.success_criteria_met \/ s.user_input_needed THEN "END" ELSE "worker"

(***************************************************************************)
(* run_superstep: the initial graph state                                  *)
(***************************************************************************)
DefaultCriteria(v) ==
    IF v = "vinamra" THEN "Provide a clear, accurate, and helpful response"
    ELSE "The answer should be clear and accurate"

InitialState(v, m, criteria, warnings) ==
    [messages |-> <<HumanMessage(m.text)>>,
     success_criteria |-> IF v = "adriana" \/ criteria # "" THEN criteria
                          ELSE DefaultCriteria(v),
     feedback_on_work |-> None,
     success_criteria_met |-> FALSE,
     user_input_needed |-> FALSE,
     event_input |-> None,
     clarification_question |-> None,
     guardrails_issues |-> warnings]

Say(role, content) == [role |-> role, content |-> content]

\* The state of a Sidekick on which run_superstep has not been called.
NoState == InitialState("azure", [text |-> ""], "", << >>)

\* run_superstep is called: sidekick_vinamra validates the input first and
\* returns without running the graph when validation fails.
RunSuperstep(m, criteria, llm, old) ==
    /\ node = "idle"
    /\ user_message' = m
    /\ LET validation == validate_input(m, llm)
           warnings == SelectSeq(validation.issues, IsWarning)
       IN  IF variant = "vinamra" /\ ~validation.is_valid
           THEN /\ node' = "returned"
                /\ history' = old \o <<Say("user", <<m.text>>),
                                       Say("assistant",
                                           <<"Input validation failed:">> \o validation.issues)>>
                /\ UNCHANGED state
           ELSE /\ node' = IF variant = "adriana" THEN "intake" ELSE "worker"
                /\ state' = InitialState(variant, m, criteria,
                                         IF variant = "vinamra" THEN warnings ELSE << >>)
                /\ history' = old
    /\ UNCHANGED <<variant, system_message, worker_calls>>
    /\ UNCHANGED not_sk

(***************************************************************************)
(* The graph nodes. Each action is one node followed by the routing of its *)
(* outgoing edge.                                                          *)
(***************************************************************************)
Append1(s, msg) == [s EXCEPT !.messages = Append(@, msg)]

\* adriana: intake extracts the event inputs; missing tells whether a
\* required field is absent from the extraction.
Intake(missing) ==
    /\ node = "intake"
    /\ LET new == IF missing
                  THEN [Append1(state, AIMessage(<<"Question: I am missing required info">>))
                            EXCEPT !.user_input_needed = TRUE, !.event_input = None]
                  ELSE [state EXCEPT !.user_input_needed = FALSE, !.event_input = "extracted"]
       IN  /\ state' = new
           /\ node' = intake_router(new)
    /\ UNCHANGED <<variant, user_message, system_message, worker_calls, history>>
    /\ UNCHANGED not_sk

\* The system prompt the worker builds: the base prompt with the success
\* criteria, then the feedback section when feedback_on_work is truthy.
BasePrompt(s) == <<"system prompt", s.success_criteria>>

FeedbackSection(s) == <<"feedback on previous attempt", s.feedback_on_work>>

\* sidekick_vinamra appends the feedback section to the unbound local name
\* ystem_message: the worker raises instead of building the prompt.
WorkerRaises(v, s) == v = "vinamra" /\ Truthy(s.feedback_on_work)

WorkerPrompt(s) ==
    IF Truthy(s.feedback_on_work) THEN BasePrompt(s) \o FeedbackSection(s)
    ELSE BasePrompt(s)

Worker(response) ==
    /\ node = "worker"
    /\ worker_calls < MaxWorkerCalls
    /\ worker_calls' = worker_calls + 1
    /\ IF WorkerRaises(variant, state)
       THEN /\ node' = "raised"
            /\ UNCHANGED <<state, system_message>>
       ELSE /\ system_message' = WorkerPrompt(state)
            /\ state' = Append1(state, response)
            /\ node' = worker_router(variant, state')
    /\ UNCHANGED <<variant, user_message, history>>
    /\ UNCHANGED not_sk

\* ToolNode runs the requested tools and appends their results.
Tools ==
    /\ node = "tools"
    /\ state' = Append1(state, ToolMessage)
    /\ node' = "worker"
    /\ UNCHANGED <<variant, user_message, system_message, worker_calls, history>>
    /\ UNCHANGED not_sk

HasQuestionMark(content) == content = <<"question?">>

\* sidekick_vinamra: llm is the analyser's verdict ("yes", "no") or "raise",
\* on which the node falls back to looking for a question mark.
ClarificationCheck(llm) ==
    /\ node = "clarification_check"
    /\ LET last_response == Last(state.messages).content
           needed == IF llm = "raise" THEN HasQuestionMark(last_response) ELSE llm = "yes"
           new == [state EXCEPT !.user_input_needed = needed,
                                !.clarification_question =
                                    IF needed THEN "clarification question" ELSE None]
       IN  /\ state' = new
           /\ node' = route_after_clarification_check(new)
    /\ UNCHANGED <<variant, user_message, system_message, worker_calls, history>>
    /\ UNCHANGED not_sk

EvaluatorMessage(v, feedback) ==
    IF v = "adriana" THEN AIMessage(<<"Evaluator Feedback on this answer: ", feedback>>)
    ELSE AIMessage(<<"Evaluation: ", feedback>>)

\* The evaluator LLM's structured output is (feedback, met, needed). The
\* AzureOpenAI variant adds no message to the state.
Evaluator(feedback, met, needed) ==
    /\ node = "evaluator"
    /\ LET verdict == [state EXCEPT !.feedback_on_work = feedback,
                                    !.success_criteria_met = met,
                                    !.user_input_needed = needed]
           new == IF variant = "azure" THEN verdict
                  ELSE Append1(verdict, EvaluatorMessage(variant, feedback))
       IN  /\ state' = new
           /\ node' = route_based_on_evaluation(new)
    /\ UNCHANGED <<variant, user_message, system_message, worker_calls, history>>
    /\ UNCHANGED not_sk

\* The graph reached END: run_superstep formats the result for the UI.
Finish ==
    /\ node = "END"
    /\ node' = "returned"
    /\ LET msgs == state.messages
           n == Len(msgs)
           user == Say("user", <<user_message.text>>)
           warnings == state.guardrails_issues
       IN  history' =
             IF variant = "azure"
             THEN history \o
                  <<user,
                    Say("assistant", IF n > 1 THEN msgs[n - 1].content ELSE << >>),
                    Say("assistant",
                        <<"Evaluation: ",
                          IF Truthy(state.feedback_on_work) THEN state.feedback_on_work
                          ELSE "No feedback">>)>>
             ELSE history \o <<user>>
                  \o (IF variant = "vinamra" /\ warnings # << >>
                      THEN <<Say("assistant", warnings)>> ELSE << >>)
                  \o <<Say("assistant", msgs[n - 1].content),
                       Say("assistant", msgs[n].content)>>
    /\ UNCHANGED <<variant, state, user_message, system_message, worker_calls>>
    /\ UNCHANGED not_sk

Histories == { << >>, <<Say("user", <<"earlier">>)>> }

SkInit ==
    /\ variant \in Variants
    /\ node = "idle"
    /\ state = NoState
    /\ user_message = [text |-> "", len |-> 0, sensitive |-> {}, harmful |-> FALSE]
    /\ system_message = << >>
    /\ worker_calls = 0
    /\ history = << >>

\* The sidekick is not running.
SkIdle ==
    /\ variant = "azure"
    /\ node = "idle"
    /\ state = NoState
    /\ user_message = [text |-> "", len |-> 0, sensitive |-> {}, harmful |-> FALSE]
    /\ system_message = << >>
    /\ worker_calls = 0
    /\ history = << >>

SkNext ==
    \/ \E m \in UserMessages, c \in SuccessCriteria,
          llm \in {"safe", "unsafe", "raise"}, old \in Histories :
            RunSuperstep(m, c, llm, old)
    \/ \E missing \in BOOLEAN : Intake(missing)
    \/ \E r \in WorkerResponses : Worker(r)
    \/ Tools
    \/ \E llm \in {"yes", "no", "raise"} : ClarificationCheck(llm)
    \/ \E f \in Feedbacks, met \in BOOLEAN, needed \in BOOLEAN : Evaluator(f, met, needed)
    \/ Finish


(***************************************************************************)
(* Claims about the sidekick graphs                                        *)
(***************************************************************************)
IsEvaluatorMessage(msg) == msg.type = "ai" /\ Len(msg.content) = 2

IsToolMessage(msg) == msg.type = "tool"

\* C2: in every sidekick variant the graph reaches END only in a state where
\* success_criteria_met or user_input_needed is true, and whenever the
\* evaluator leaves both false the next node is the worker.
C2_EndOnlyWhenDone ==
    /\ [](node = "END" => (state.success_criteria_met \/ state.user_input_needed))
    /\ [][(node = "evaluator"
             /\ ~state'.success_criteria_met /\ ~state'.user_input_needed)
            => node' = "worker"]_vars

\* C2 witness: a run that the evaluator first rejected (control went back to
\* the worker) and then accepted has reached END.
C2_Witness ==
    /\ node = "END"
    /\ variant = "adriana"
    /\ state.success_criteria_met
    /\ Len(SelectSeq(state.messages, IsEvaluatorMessage)) = 2

\* C3 as stated: after a worker step that returned a response the next node
\* is tools iff the response carries tool calls and evaluator otherwise, and
\* after a tools step the next node is the worker.
C3_Original ==
    [][/\ (node = "worker" /\ Len(state'.messages) > Len(state.messages))
            => node' = (IF Last(state'.messages).tool_calls THEN "tools" ELSE "evaluator")
       /\ node = "tools" => node' = "worker"]_vars

\* C3 amended: as C3, except that in sidekick_vinamra a response without
\* tool calls goes to the clarification_check node instead of the evaluator.
C3_WorkerRouting ==
    [][/\ (node = "worker" /\ Len(state'.messages) > Len(state.messages))
            => node' = (IF Last(state'.messages).tool_calls THEN "tools"
                        ELSE IF variant = "vinamra" THEN "clarification_check"
                        ELSE "evaluator")
       /\ node = "tools" => node' = "worker"]_vars

\* C3 witness: in sidekick_vinamra a worker asked for tools, the tools ran,
\* the worker ran again and its plain response reached clarification_check.
C3_Witness ==
    /\ variant = "vinamra"
    /\ node = "clarification_check"
    /\ Len(SelectSeq(state.messages, IsToolMessage)) = 1

InSeq(x, seq) == \E i \in 1..Len(seq) : seq[i] = x

\* C8: once the evaluator has rejected a response (its feedback is in the
\* state and control is at the worker), the worker step produces a new
\* response, built with a system prompt that carries the feedback, and the
\* response is routed to the tools or onward to evaluation.
C8_RetryWithFeedback ==
    [][(node = "worker" /\ state.feedback_on_work # None)
         => /\ node' \in {"tools", "evaluator", "clarification_check"}
            /\ Len(state'.messages) = Len(state.messages) + 1
            /\ Truthy(state.feedback_on_work)
                 => InSeq(state.feedback_on_work, system_message')]_vars

IsValidationFailure(entry) ==
    /\ entry.role = "assistant"
    /\ Len(entry.content) >= 1
    /\ entry.content[1] = "Input validation failed:"

\* C14: in sidekick_vinamra run_superstep starts the graph only if the
\* estimated token count is within max_tokens and moderation finds the
\* message safe; otherwise it returns at once, no worker, tool or evaluator
\* step runs, and the history is the old history plus the user's message
\* and one validation-failure message.
C14_InvalidInputStops ==
    /\ [][\A m \in UserMessages, c \in SuccessCriteria,
             llm \in {"safe", "unsafe", "raise"}, old \in Histories :
             (variant = "vinamra" /\ RunSuperstep(m, c, llm, old))
               => IF check_token_limit(m).within_limit /\ moderate_content(m, llm).is_safe
                  THEN node' = "worker" /\ history' = old
                  ELSE /\ node' = "returned"
                       /\ Len(history') = Len(old) + 2
                       /\ SubSeq(history', 1, Len(old)) = old
                       /\ history'[Len(old) + 1] = Say("user", <<m.text>>)
                       /\ IsValidationFailure(history'[Len(old) + 2])]_vars
    /\ []((variant = "vinamra" /\ node \notin {"idle", "returned"})
            => (check_token_limit(user_message).within_limit
                /\ ~check_sensitive_data(user_message).found
                /\ ~check_harmful_content(user_message).is_harmful))
    /\ []((variant = "vinamra" /\ node = "returned"
             /\ IsValidationFailure(Last(history)))
            => (worker_calls = 0 /\ Len(state.messages) = Len(NoState.messages)))

\* C14 witness: sidekick_vinamra has returned the validation failure for a
\* message over the token limit, after an earlier history.
C14_Witness ==
    /\ variant = "vinamra"
    /\ node = "returned"
    /\ ~check_token_limit(user_message).within_limit
    /\ Len(history) = 3
    /\ IsValidationFailure(history[3])

\* C20: in sidekick_vinamra a message with sensitive data that is within
\* the token limit (and has no harmful keyword) is not rejected: the graph
\* runs, and the returned history shows the warning before the assistant's
\* reply.
C20_SensitiveDataOnlyWarns ==
    (/\ variant = "vinamra"
     /\ node = "returned"
     /\ check_sensitive_data(user_message).found
     /\ check_token_limit(user_message).within_limit
     /\ ~check_harmful_content(user_message).is_harmful)
      => /\ worker_calls > 0
         /\ ~IsValidationFailure(Last(history))
         /\ \E i \in 1..(Len(history) - 2) : history[i] = Say("assistant", <<SensitiveWarning>>)

\* GuardrailsManager.moderate_content(text, "ai_output") on the content of
\* an assistant message: the pattern check finds it unsafe.
FailsContentCheck(content) == content = SensitiveAnswer.content

\* C15: in sidekick_vinamra the guardrails check the AI output too: every
\* assistant response in the history that run_superstep returns has passed
\* the GuardrailsManager content check.
C15_OutputChecked ==
    (variant = "vinamra" /\ node = "returned")
      => \A i \in 1..Len(history) :
            history[i].role = "assistant" => ~FailsContentCheck(history[i].content)

\* The variants whose worker routes straight to the evaluator.
LoopVariants == {"adriana", "azure"}

Rejected(s) == ~s.success_criteria_met /\ ~s.user_input_needed

IsWorkerResponse(msg) == msg \in WorkerResponses

\* C17: in each variant run_superstep returns the prior history extended by
\* the user's message, then the worker's final response of this run, then
\* the evaluator's feedback on it, on every path by which the graph ends.
C17_ReturnedHistory ==
    [][node = "END"
         => LET old == history
                responses == SelectSeq(state.messages, IsWorkerResponse)
            IN  /\ Len(history') = Len(old) + 3
                /\ SubSeq(history', 1, Len(old)) = old
                /\ history'[Len(old) + 1] = Say("user", <<user_message.text>>)
                /\ responses # << >>
                /\ history'[Len(old) + 2] = Say("assistant", Last(responses).content)
                /\ state.feedback_on_work # None
                /\ history'[Len(old) + 3].role = "assistant"
                /\ history'[Len(old) + 3].content =
                      EvaluatorMessage(variant, state.feedback_on_work).content]_vars

(***************************************************************************)
(* DEEP RESEARCH (deep_research_vinamra)                                   *)
(***************************************************************************)
\* ResearchManager.__init__: RateLimitGuard(max_queries_per_hour=10)
max_queries_per_hour == 10

\* The window of can_process_query, in seconds.
RateWindow == 3600

\* Bound on the number of searches the planner LLM may plan.
MaxSearches == 2

\* A guard that never drops an old timestamp.
can_process_query_never_prunes(timestamps, now) ==
    IF Len(timestamps) >= max_queries_per_hour
    THEN [ok |-> FALSE, timestamps |-> timestamps]
    ELSE [ok |-> TRUE, timestamps |-> Append(timestamps, now)]

\* RateLimitGuard.can_process_query at time now: the pruned timestamps, with
\* now appended when the query is accepted.
can_process_query(timestamps, now) ==
    LET InWindow(ts) == now - ts < RateWindow
        pruned == SelectSeq(timestamps, InWindow)
    IN  IF Len(pruned) >= max_queries_per_hour
        THEN [ok |-> FALSE, timestamps |-> pruned]
        ELSE [ok |-> TRUE, timestamps |-> Append(pruned, now)]

\* Entries of the log. The argument is a sequence of text parts.
Yield(text, arg) == [kind |-> "yield", text |-> text, arg |-> arg]
Invoke(agent, arg) == [kind |-> "invoke", text |-> agent, arg |-> arg]
Completed(stage) == [kind |-> "completed", text |-> stage, arg |-> << >>]
Verdict(validator, is_valid) ==
    [kind |-> "verdict", text |-> validator,
     arg |-> <<IF is_valid THEN "valid" ELSE "invalid">>]
Failed(stage) == [kind |-> "failed", text |-> stage, arg |-> << >>]
Outcome(what, how) == [kind |-> "outcome", text |-> what, arg |-> <<how>>]
Call(query, skip_clarifying) ==
    [kind |-> "call", text |-> "run",
     arg |-> <<query, IF skip_clarifying THEN "skip_clarifying=True"
                      ELSE "skip_clarifying=False">>]

IsYield(e) == e.kind = "yield"

\* The strings run() has yielded so far.
Yielded == SelectSeq(log, IsYield)

RateLimitMsg == Yield("Rate Limit: Rate limit exceeded", << >>)
StartingMsg == Yield("Starting Deep Research", << >>)
TraceMsg == Yield("View trace", <<"trace_id">>)
Step1Msg == Yield("Step 1/4: Planning searches...", << >>)
PlannedMsg(n) == Yield("Planned n searches", <<ToString(n)>>)
Step2Msg == Yield("Step 2/4: Performing web searches...", << >>)
NoResultsMsg == Yield("Error: No search results obtained", << >>)
SearchedMsg(n) == Yield("Completed n searches", <<ToString(n)>>)
Step3Msg == Yield("Step 3/4: Synthesizing research and writing report...", << >>)
ReportDoneMsg == Yield("Report completed", << >>)
Step4Msg == Yield("Step 4/4: Sending email...", << >>)
EmailSentMsg == Yield("Email sent", << >>)
RuleMsg == Yield("---", << >>)
CompleteMsg == Yield("Research Complete", << >>)
ReportMsg(r) == Yield("report.markdown_report", r.markdown_report)
FailedMsg(e) == Yield("Error: Research process failed", <<e>>)
TryAgainMsg == Yield("Please try again", << >>)

NoReport == [markdown_report |-> << >>]

\* An except clause that names a narrower exception type.
RunCatches_only_value_error(e) == e = "ValueError"

\* The except clause of run(): every Exception raised by a stage is caught.
RunCatches(e) == TRUE

\* The stage raised RuntimeError(e) inside run()'s try block, after the
\* entries `before`.
Raise(before, stage, e) ==
    IF RunCatches("RuntimeError")
    THEN /\ log' = log \o before \o <<Failed(stage), FailedMsg(e), TryAgainMsg>>
         /\ run_pc' = "done"
    ELSE /\ log' = log \o before \o <<Failed(stage)>>
         /\ run_pc' = "raised"

\* run(query, skip_clarifying) is called on the ResearchManager: the
\* rate-limit check, then the opening status lines. The body of run() never
\* reads skip_clarifying.
StartRun(query, skip_clarifying) ==
    /\ run_pc = "idle"
    /\ run_query' = query
    /\ LET check == can_process_query(query_timestamps, clock)
           called == <<Call(query, skip_clarifying)>>
       IN  /\ query_timestamps' = check.timestamps
           /\ IF check.ok
              THEN /\ log' = log \o called \o <<StartingMsg, TraceMsg, Step1Msg>>
                   /\ run_pc' = "plan"
              ELSE /\ log' = log \o called \o <<RateLimitMsg>>
                   /\ run_pc' = "done"
    /\ UNCHANGED <<clock, tasks, completed, num_completed, results, report>>
    /\ UNCHANGED not_run

\* guardrails.py: the input guardrail trips iff the validator's verdict is
\* not valid.
validate_research_input(validation) ==
    [tripwire_triggered |-> ~validation.is_valid]

\* guardrails.py: get_disclaimer, by category.
get_disclaimer(category) ==
    IF category = "SENSITIVE" THEN "DISCLAIMER: informational purposes only"
    ELSE "Note: generated using AI and web sources"

\* An output guardrail that reports the verdict but never trips.
output_guardrail_never_trips(validation) ==
    [tripwire_triggered |-> FALSE, added_disclaimer |-> validation.needs_disclaimer,
     disclaimer |-> None]

\* guardrails.py: the output guardrail. For a valid report that needs a
\* disclaimer it computes the disclaimer and reports added_disclaimer; the
\* agent's output itself is not changed.
validate_research_output(validation) ==
    IF validation.is_valid /\ validation.needs_disclaimer
    THEN [tripwire_triggered |-> FALSE, added_disclaimer |-> TRUE,
          disclaimer |-> get_disclaimer(validation.query_category)]
    ELSE [tripwire_triggered |-> ~validation.is_valid, added_disclaimer |-> FALSE,
          disclaimer |-> None]

\* plan_searches: the planner agent runs behind the input guardrail
\* validate_research_input. valid is the verdict of the validator LLM,
\* planned tells whether the agent calls succeeded, n is the number of
\* searches of the plan. After a plan, run() announces the searches and
\* perform_searches creates one task per planned item.
PlanSearches(valid, planned, n) ==
    /\ run_pc = "plan"
    /\ LET guard == validate_research_input([is_valid |-> valid])
           called == <<Invoke("planner", <<run_query>>),
                       Invoke("input_validator", <<run_query>>)>>
           checked == called \o <<Verdict("input_validator", valid)>>
       IN  IF ~planned
           THEN /\ Raise(called, "plan", "Failed to plan searches")
                /\ UNCHANGED tasks
           ELSE IF guard.tripwire_triggered
           THEN /\ Raise(checked, "plan", "Failed to plan searches")
                /\ UNCHANGED tasks
           ELSE /\ log' = log \o checked
                            \o <<Completed("plan"), PlannedMsg(n), Step2Msg>>
                            \o [i \in 1..n |-> Invoke("search", <<ToString(i)>>)]
                /\ tasks' = [i \in 1..n |-> "pending"]
                /\ run_pc' = "searching"
    /\ UNCHANGED <<query_timestamps, clock, run_query, completed, num_completed,
                   results, report>>
    /\ UNCHANGED not_run

\* search(item): the task of plan position i finishes, with the summary
\* ("ok") or, when the search agent raised, with None ("failed").
SearchCompletes(i, outcome) ==
    /\ run_pc = "searching"
    /\ i \in DOMAIN tasks
    /\ tasks[i] = "pending"
    /\ tasks' = [tasks EXCEPT ![i] = outcome]
    /\ completed' = Append(completed, i)
    /\ UNCHANGED <<run_pc, log, query_timestamps, clock, run_query, num_completed,
                   results, report>>
    /\ UNCHANGED not_run

\* The task the as_completed loop of perform_searches resumes with next.
NextCompleted == completed[num_completed + 1]

\* One iteration of the as_completed loop.
CollectResult ==
    /\ run_pc = "searching"
    /\ num_completed < Len(completed)
    /\ results' = IF tasks[NextCompleted] = "ok" THEN Append(results, NextCompleted)
                  ELSE results
    /\ num_completed' = num_completed + 1
    /\ UNCHANGED <<run_pc, log, query_timestamps, clock, run_query, tasks, completed,
                   report>>
    /\ UNCHANGED not_run

\* A loop that stops at the first completed task.
SearchesCollected_first == num_completed >= 1 \/ Len(tasks) = 0

\* The loop of perform_searches is over once it has taken every task.
SearchesCollected == num_completed = Len(tasks)

\* A run() that goes on to the writer whatever perform_searches returned.
SearchesReturn_ignores_empty ==
    /\ run_pc = "searching"
    /\ SearchesCollected
    /\ log' = log \o <<Completed("search"), SearchedMsg(Len(results)), Step3Msg>>
    /\ run_pc' = "write"
    /\ UNCHANGED <<query_timestamps, clock, run_query, tasks, completed, num_completed,
                   results, report>>
    /\ UNCHANGED not_run

\* perform_searches returns to run().
SearchesReturn ==
    /\ run_pc = "searching"
    /\ SearchesCollected
    /\ IF results = << >>
       THEN /\ log' = log \o <<NoResultsMsg>>
            /\ run_pc' = "done"
       ELSE /\ log' = log \o <<Completed("search"), SearchedMsg(Len(results)), Step3Msg>>
            /\ run_pc' = "write"
    /\ UNCHANGED <<query_timestamps, clock, run_query, tasks, completed, num_completed,
                   results, report>>
    /\ UNCHANGED not_run

Categories == {"SENSITIVE", "GENERAL", None}

\* The verdicts the output validator LLM may return.
ReportValidations ==
    { [is_valid |-> FALSE, needs_disclaimer |-> FALSE, query_category |-> None] }
    \cup [is_valid : {TRUE}, needs_disclaimer : BOOLEAN, query_category : Categories]

\* The markdown the writer LLM produces.
WriterOutput == [markdown_report |-> <<"report body">>]

\* A writer whose report lists the search results in the order of its input.
WriterResponse_echoes_input(search_results) ==
    [markdown_report |-> [i \in 1..Len(search_results) |-> ToString(search_results[i])]]

\* The response of the writer agent to the input text built from
\* search_results: the agent's responses are fixed, whatever the input.
WriterResponse(search_results) == WriterOutput

\* write_report: the writer agent runs, then its output guardrail
\* validate_research_output. wrote tells whether the writer call succeeded.
WriteReport(wrote, validation) ==
    /\ run_pc = "write"
    /\ LET guard == validate_research_output(validation)
           called == <<Invoke("writer", [i \in 1..Len(results) |-> ToString(results[i])])>>
           checked == called \o <<Invoke("output_validator",
                                          WriterResponse(results).markdown_report),
                                   Verdict("output_validator", validation.is_valid)>>
       IN  IF ~wrote
           THEN /\ Raise(called, "write", "Failed to write report")
                /\ UNCHANGED report
           ELSE IF guard.tripwire_triggered
           THEN /\ Raise(checked, "write", "Failed to write report")
                /\ UNCHANGED report
           ELSE /\ report' = WriterResponse(results)
                /\ log' = log \o checked
                            \o (IF guard.added_disclaimer
                                THEN <<Outcome("added_disclaimer", guard.disclaimer)>>
                                ELSE << >>)
                            \o <<Completed("write"), ReportDoneMsg, Step4Msg>>
                /\ run_pc' = "email"
    /\ UNCHANGED <<query_timestamps, clock, run_query, tasks, completed, num_completed,
                   results>>
    /\ UNCHANGED not_run

\* How the email agent's run can end: its send_email tool reported
\* success, a warning status or an error, the agent never called the tool,
\* or the agent run raised (send_email of the manager logs it and goes on).
EmailOutcomes == {"success", "warning", "error", "no tool call", "raised"}

\* A run that yields the report before the email stage.
SendEmail_after_report(outcome) ==
    /\ run_pc = "email"
    /\ log' = log \o <<EmailSentMsg, RuleMsg, CompleteMsg, ReportMsg(report),
                       Invoke("email", report.markdown_report),
                       Outcome("email", outcome),
                       Completed("email")>>
    /\ run_pc' = "done"
    /\ UNCHANGED <<query_timestamps, clock, run_query, tasks, completed, num_completed,
                   results, report>>
    /\ UNCHANGED not_run

\* send_email, then the closing status lines and the report.
SendEmail(outcome) ==
    /\ run_pc = "email"
    /\ log' = log \o <<Invoke("email", report.markdown_report),
                       Outcome("email", outcome),
                       Completed("email"),
                       EmailSentMsg, RuleMsg, CompleteMsg, ReportMsg(report)>>
    /\ run_pc' = "done"
    /\ UNCHANGED <<query_timestamps, clock, run_query, tasks, completed, num_completed,
                   results, report>>
    /\ UNCHANGED not_run

Queries == {"ai in healthcare", "quantum computing"}

\* A ResearchManager has been constructed; run() has not been called.
RunInit ==
    /\ run_pc = "idle"
    /\ log = << >>
    /\ query_timestamps = << >>
    /\ clock = 0
    /\ run_query = ""
    /\ tasks = << >>
    /\ completed = << >>
    /\ num_completed = 0
    /\ results = << >>
    /\ report = NoReport

RunNext ==
    \/ \E q \in Queries, skip_clarifying \in BOOLEAN : StartRun(q, skip_clarifying)
    \/ \E valid \in BOOLEAN, planned \in BOOLEAN, n \in 0..MaxSearches :
          PlanSearches(valid, planned, n)
    \/ \E i \in 1..MaxSearches, outcome \in {"ok", "failed"} : SearchCompletes(i, outcome)
    \/ CollectResult
    \/ SearchesReturn
    \/ \E wrote \in BOOLEAN, v \in ReportValidations : WriteReport(wrote, v)
    \/ \E outcome \in EmailOutcomes : SendEmail(outcome)

(***************************************************************************)
(* Claims about ResearchManager.run                                        *)
(***************************************************************************)
InLog(e) == \E i \in 1..Len(log) : log[i] = e

Invoked(agent) == \E i \in 1..Len(log) : log[i].kind = "invoke" /\ log[i].text = agent

IsReport(e) == e.kind = "yield" /\ e.text = "report.markdown_report"

ReportYielded == \E i \in 1..Len(log) : IsReport(log[i])

\* Every entry of this kind and text is preceded by the entry `first`.
Precedes(first, kind, text) ==
    \A j \in 1..Len(log) :
        (log[j].kind = kind /\ log[j].text = text) => \E i \in 1..(j - 1) : log[i] = first

\* The run ended by yielding the error message of its except clause.
EndsWithError ==
    /\ run_pc = "done"
    /\ Len(log) >= 2
    /\ log[Len(log) - 1].kind = "yield"
    /\ log[Len(log) - 1].text = "Error: Research process failed"
    /\ Last(log) = TryAgainMsg

\* C1: run() executes plan, search, write, email in this order: the agents
\* of a stage are invoked, and the status line announcing the stage is
\* yielded, only after the previous stage has completed; the report is
\* yielded only after all four stages and nothing is yielded after it.
C1_StagesInOrder ==
    /\ Precedes(Step1Msg, "invoke", "planner")
    /\ Precedes(Completed("plan"), "yield", Step2Msg.text)
    /\ Precedes(Step2Msg, "invoke", "search")
    /\ Precedes(Completed("search"), "yield", Step3Msg.text)
    /\ Precedes(Step3Msg, "invoke", "writer")
    /\ Precedes(Completed("write"), "yield", Step4Msg.text)
    /\ Precedes(Step4Msg, "invoke", "email")
    /\ \A stage \in {"plan", "search", "write", "email"} :
          Precedes(Completed(stage), "yield", "report.markdown_report")
    /\ \A j \in 1..Len(log) : IsReport(log[j]) => j = Len(log)

\* C1 witness: a complete run with two searches has yielded its report.
C1_Witness ==
    /\ run_pc = "done"
    /\ Last(log) = ReportMsg(WriterOutput)
    /\ Len(results) = 2

\* C4: once the input validator has found the query invalid, no search,
\* writer or email agent is invoked; once the output validator has found
\* the report invalid, the report is neither emailed nor yielded; in both
\* cases the run ends by yielding the error message.
C4_GuardrailStops ==
    /\ InLog(Verdict("input_validator", FALSE))
         => /\ ~Invoked("search") /\ ~Invoked("writer") /\ ~Invoked("email")
            /\ EndsWithError
    /\ InLog(Verdict("output_validator", FALSE))
         => /\ ~Invoked("email") /\ ~ReportYielded
            /\ EndsWithError

\* C4 witness: the output validator rejected a report written from two
\* search results.
C4_Witness ==
    /\ InLog(Verdict("output_validator", FALSE))
    /\ Len(results) = 2
    /\ run_pc = "done"

\* C9: no exception escapes run(): when planning or report writing has
\* failed, the run has finished normally with the error message as its last
\* output and without a report.
C9_NoEscape ==
    /\ run_pc # "raised"
    /\ (InLog(Failed("plan")) \/ InLog(Failed("write")))
         => (EndsWithError /\ ~ReportYielded)

\* C9 witness: report writing failed after a successful search stage.
C9_Witness ==
    /\ InLog(Failed("write"))
    /\ InLog(Completed("search"))
    /\ run_pc = "done"

\* perform_searches has returned to run().
SearchesReturned == InLog(Completed("search")) \/ InLog(NoResultsMsg)

Succeeded(i) == tasks[i] = "ok"

NumInvoked(agent) ==
    Cardinality({i \in 1..Len(log) : log[i].kind = "invoke" /\ log[i].text = agent})

\* C10: perform_searches starts one search per item of the plan; when it
\* has returned every task has completed, and its result list holds exactly
\* the searches that succeeded, in the order in which they completed.
C10_PerformSearches ==
    /\ InLog(Completed("plan"))
         => (InLog(PlannedMsg(Len(tasks))) /\ NumInvoked("search") = Len(tasks))
    /\ SearchesReturned
         => /\ \A i \in DOMAIN tasks : tasks[i] # "pending"
            /\ Len(completed) = Len(tasks)
            /\ results = SelectSeq(completed, Succeeded)

\* C10 witness: two searches succeeded, the second of the plan first.
C10_Witness ==
    /\ SearchesReturned
    /\ completed = <<2, 1>>
    /\ results = <<2, 1>>

NumOk == Cardinality({i \in DOMAIN tasks : tasks[i] = "ok"})

\* What a finished run yields, told from the responses of the agents alone
\* (the plan, the outcome of each planned search, the success of the planner
\* and writer stages), not from the order in which the searches completed.
ExpectedYields ==
    IF InLog(Failed("plan"))
    THEN <<StartingMsg, TraceMsg, Step1Msg, FailedMsg("Failed to plan searches"), TryAgainMsg>>
    ELSE <<StartingMsg, TraceMsg, Step1Msg, PlannedMsg(Len(tasks)), Step2Msg>> \o
         (IF NumOk = 0
          THEN <<NoResultsMsg>>
          ELSE <<SearchedMsg(NumOk), Step3Msg>> \o
               (IF InLog(Failed("write"))
                THEN <<FailedMsg("Failed to write report"), TryAgainMsg>>
                ELSE <<ReportDoneMsg, Step4Msg, EmailSentMsg, RuleMsg, CompleteMsg,
                       ReportMsg(WriterOutput)>>))

\* C11: for fixed agent and tool responses and a fixed trace id, the
\* sequence of strings a finished run has yielded is determined by those
\* responses: it is the same whatever the order in which the concurrent
\* searches completed.
C11_YieldsIndependentOfOrder ==
    run_pc = "done" => Yielded = ExpectedYields

\* C11 witness: a run has yielded its report after its two searches
\* succeeded in the reverse of the plan's order.
C11_Witness ==
    /\ run_pc = "done"
    /\ ReportYielded
    /\ completed = <<2, 1>>
    /\ NumOk = 2

\* C12: run() called with skip_clarifying=False performs a
\* clarifying-questions step before planning; called with
\* skip_clarifying=True it performs none.
C12_ClarifyingStep ==
    \A q \in Queries :
        /\ (InLog(Call(q, FALSE)) /\ Invoked("planner"))
              => \E i, j \in 1..Len(log) :
                    /\ i < j
                    /\ log[i].kind = "invoke" /\ log[i].text = "clarifying_questions"
                    /\ log[j].kind = "invoke" /\ log[j].text = "planner"
        /\ InLog(Call(q, TRUE)) => ~Invoked("clarifying_questions")

\* C13: when the output validator found the report valid and in need of a
\* disclaimer, the report run() passes to the email agent and yields
\* includes the text of get_disclaimer for the validator's category.
C13_DisclaimerDelivered ==
    \A c \in Categories :
        InLog(Outcome("added_disclaimer", get_disclaimer(c)))
          => \A i \in 1..Len(log) :
                ((log[i].kind = "invoke" /\ log[i].text = "email") \/ IsReport(log[i]))
                  => \E k \in 1..Len(log[i].arg) : log[i].arg[k] = get_disclaimer(c)

\* C18: run() yields 'Email sent' only if the email agent's run completed
\* without raising and its send_email tool reported success.
C18_EmailSentOnlyIfDelivered ==
    InLog(EmailSentMsg) => InLog(Outcome("email", "success"))


(***************************************************************************)
(* One ResearchManager used for several runs: run() is called again on the *)
(* same manager once the previous run has finished.                        *)
(***************************************************************************)
\* The caller has consumed the generator and calls run() again later: the
\* locals of the finished run are gone, the manager keeps its rate_limiter.
RunFinished ==
    /\ run_pc = "done"
    /\ run_pc' = "idle"
    /\ log' = << >>
    /\ run_query' = ""
    /\ tasks' = << >>
    /\ completed' = << >>
    /\ num_completed' = 0
    /\ results' = << >>
    /\ report' = NoReport
    /\ UNCHANGED <<query_timestamps, clock>>
    /\ UNCHANGED not_run

ManagerNext ==
    \/ RunNext
    \/ RunFinished

\* C22: when run() stops early it yields one terminal message and invokes
\* no later agent: after a failed rate-limit check the rate-limit message
\* is all it yields and no planner, validator, search, writer or email
\* agent runs; when perform_searches returns no result, the last thing it
\* does is yield the no-results message, and neither the writer nor the
\* email agent runs.
C22_EarlyStop ==
    /\ InLog(RateLimitMsg)
         => /\ run_pc = "done"
            /\ Yielded = <<RateLimitMsg>>
            /\ \A i \in 1..Len(log) : log[i].kind # "invoke"
    /\ (SearchesReturned /\ NumOk = 0)
         => /\ run_pc = "done"
            /\ Last(log) = NoResultsMsg
            /\ Yielded = <<StartingMsg, TraceMsg, Step1Msg, PlannedMsg(Len(tasks)),
                           Step2Msg, NoResultsMsg>>
            /\ ~Invoked("writer") /\ ~Invoked("output_validator") /\ ~Invoked("email")
            /\ ~ReportYielded

\* C22 witness: the eleventh run on one manager within the hour has ended
\* with the rate-limit message.
C22_Witness ==
    /\ run_pc = "done"
    /\ InLog(RateLimitMsg)
    /\ Len(query_timestamps) = max_queries_per_hour

(***************************************************************************)
(* RateLimitGuard on its own: one guard, called again and again while the  *)
(* clock moves on.                                                         *)
(***************************************************************************)
\* Bound on the calls of can_process_query.
MaxGuardCalls == 13

\* Bound on the clock, in seconds, and the steps in which it moves.
MaxGuardClock == 7200
GuardClockSteps == {1200}

\* The record of one can_process_query call: its time and its answer.
GuardCalled(now, ok) ==
    [kind |-> "can_process_query", text |-> IF ok THEN "accepted" ELSE "rejected",
     arg |-> <<now>>]

\* rate_limiter.can_process_query() at the current time.
GuardCall ==
    /\ Len(log) < MaxGuardCalls
    /\ LET check == can_process_query(query_timestamps, clock)
       IN  /\ query_timestamps' = check.timestamps
           /\ log' = Append(log, GuardCalled(clock, check.ok))
    /\ UNCHANGED <<run_pc, clock, run_query, tasks, completed, num_completed,
                   results, report>>
    /\ UNCHANGED not_run

\* time.time() moves on between two calls.
GuardClockAdvances(d) ==
    /\ clock + d <= MaxGuardClock
    /\ clock' = clock + d
    /\ UNCHANGED <<run_pc, log, query_timestamps, run_query, tasks, completed,
                   num_completed, results, report>>
    /\ UNCHANGED not_run

GuardNext ==
    \/ GuardCall
    \/ \E d \in GuardClockSteps : GuardClockAdvances(d)

(***************************************************************************)
(* Claims about RateLimitGuard                                             *)
(***************************************************************************)
IsAccepted(e) == e.text = "accepted"

\* The times of the accepted calls, in call order.
AcceptedTimes ==
    LET accepted == SelectSeq(log, IsAccepted)
    IN  [i \in 1..Len(accepted) |-> accepted[i].arg[1]]

\* The number of calls among the first n that were accepted in the 3600
\* seconds up to time t.
AcceptedBefore(n, t) ==
    Cardinality({j \in 1..n : /\ IsAccepted(log[j])
                               /\ log[j].arg[1] <= t
                               /\ t - log[j].arg[1] < RateWindow})

\* C21: for one RateLimitGuard called at non-decreasing times, no window of
\* 3600 seconds holds more than max_queries_per_hour accepted calls; a
\* rejected call records no timestamp (the guard holds exactly the times of
\* the accepted calls still in the window of its last call); and a call is
\* rejected only if max_queries_per_hour accepted calls lie in the 3600
\* seconds before it.
C21_RateLimitGuard ==
    /\ [](\A i \in 1..Len(log) :
             AcceptedBefore(Len(log), log[i].arg[1]) <= max_queries_per_hour)
    /\ [](\A i \in 1..Len(log) :
             ~IsAccepted(log[i])
               => AcceptedBefore(i - 1, log[i].arg[1]) >= max_queries_per_hour)
    /\ [](log # << >>
            => LET last == Last(log).arg[1]
                   InWindow(t) == last - t < RateWindow
               IN  query_timestamps = SelectSeq(AcceptedTimes, InWindow))
    /\ [][\A i \in 1..Len(log') :
             (i > Len(log) /\ ~IsAccepted(log'[i]))
               => /\ Len(query_timestamps') <= Len(query_timestamps)
                  /\ \A k \in 1..Len(query_timestamps') :
                        \E j \in 1..Len(query_timestamps) :
                            query_timestamps'[k] = query_timestamps[j]]_vars

\* C21 witness: the guard has rejected a call and, after the window moved
\* on, accepted an eleventh one.
C21_Witness ==
    /\ \E i \in 1..Len(log) : ~IsAccepted(log[i])
    /\ Len(AcceptedTimes) > max_queries_per_hour
    /\ IsAccepted(Last(log))

(***************************************************************************)
(* DEEP RESEARCH UI (deep_research.py): one process, several browser       *)
(* sessions. The handlers run when a session clicks a button it can see.   *)
(***************************************************************************)
Sessions == {"A", "B"}

\* The text each session has in its query box.
SessionQuery(s) == IF s = "A" THEN "ai in healthcare" ELSE "quantum computing"

\* The non-blank answer each session types.
SessionAnswer(s) == IF s = "A" THEN "answer of A" ELSE "answer of B"

\* Bound on the number of clarifying questions the LLM returns.
MaxQuestions == 2

\* Bound on the research runs started in the process.
MaxRuns == 11

\* Bound on the clock, in seconds; the clock moves in steps of TickSteps.
MaxClock == 3600
TickSteps == {3600}

\* ClarifyingQuestionsTool.CONFIDENCE_THRESHOLD = 0.7, in percent.
CONFIDENCE_THRESHOLD == 70

\* The i-th question the LLM generates for a query.
Question(query, i) == [about |-> query, no |-> i]

QuestionsFor(query, n) == [i \in 1..n |-> Question(query, i)]

should_ask_questions(r) == r.should_ask /\ r.confidence_score < CONFIDENCE_THRESHOLD

Blank(a) == a = "" \/ a = " "

Min(a, b) == IF a < b THEN a ELSE b

\* ClarifyingQuestionsTool.refine_query_with_answers: the original query
\* followed by one line per question whose answer is not blank.
refine_query_with_answers(original_query, questions, answers) ==
    LET n == Min(Len(questions), Len(answers))
        pairs == [i \in 1..n |-> [q |-> questions[i], a |-> answers[i]]]
        Answered(pair) == ~Blank(pair.a)
    IN  [query |-> original_query, context |-> SelectSeq(pairs, Answered)]

Widgets(output, answer, submit, run_ctx) ==
    [clarifying_output |-> output,
     answer_textbox |-> answer,
     submit_answer_button |-> submit,
     run_with_context_button |-> run_ctx]

\* `if not clarifying_state["questions"]`
NoQuestions == clarifying_state.questions = << >>

\* start_clarifying_questions(query) for session s. gen is the outcome of
\* generate_questions: it raised, or returned should_ask, confidence_score
\* and n questions.
StartClarifyingQuestions(s, query, gen) ==
    /\ IF Len(query) < 3
       THEN /\ buttons' = [buttons EXCEPT ![s] = Widgets("Please enter a research query first.",
                                                          FALSE, FALSE, FALSE)]
            /\ UNCHANGED clarifying_state
       ELSE IF gen.raised
       THEN /\ buttons' = [buttons EXCEPT ![s] = Widgets("Error generating questions",
                                                          FALSE, FALSE, FALSE)]
            /\ UNCHANGED clarifying_state
       ELSE IF should_ask_questions(gen)
       THEN /\ clarifying_state' = [questions |-> QuestionsFor(query, gen.n),
                                    answers |-> << >>,
                                    current_index |-> 0,
                                    original_query |-> query]
            /\ buttons' = [buttons EXCEPT ![s] =
                             IF gen.n = 0
                             THEN Widgets("Error generating questions", FALSE, FALSE, FALSE)
                             ELSE Widgets("Question 1", TRUE, TRUE, FALSE)]
       ELSE /\ buttons' = [buttons EXCEPT ![s] = Widgets("No clarifying questions needed!",
                                                          FALSE, FALSE, TRUE)]
            /\ UNCHANGED clarifying_state
    /\ context_run' = << >>
    /\ UNCHANGED <<passed, limited, clock>>
    /\ UNCHANGED <<run_pc, log, query_timestamps, run_query, tasks, completed,
                   num_completed, results, report>>
    /\ UNCHANGED not_ui

\* submit_answer(answer) for session s.
SubmitAnswer(s, answer) ==
    /\ buttons[s].submit_answer_button
    /\ IF NoQuestions
       THEN /\ buttons' = [buttons EXCEPT ![s] = Widgets("No active questions.",
                                                          FALSE, FALSE, FALSE)]
            /\ UNCHANGED clarifying_state
       ELSE LET new == [clarifying_state EXCEPT !.answers = Append(@, answer),
                                                !.current_index = @ + 1]
            IN  /\ clarifying_state' = new
                /\ buttons' = [buttons EXCEPT ![s] =
                                 IF new.current_index < Len(new.questions)
                                 THEN Widgets("Question i", TRUE, TRUE, FALSE)
                                 ELSE Widgets("All Questions Answered", FALSE, FALSE, TRUE)]
    /\ context_run' = << >>
    /\ UNCHANGED <<passed, limited, clock>>
    /\ UNCHANGED <<run_pc, log, query_timestamps, run_query, tasks, completed,
                   num_completed, results, report>>
    /\ UNCHANGED not_ui

\* ResearchManager(): every manager is constructed with a RateLimitGuard of
\* its own, which has seen no query.
NewRateLimiter == << >>

RunsStarted == Len(passed) + limited

\* ResearchManager().run(query): the rate-limit check of the new manager.
\* The rest of the run is the subject of SpecRun.
NewRun ==
    LET check == can_process_query(NewRateLimiter, clock)
    IN  IF check.ok
        THEN /\ passed' = Append(passed, clock)
             /\ UNCHANGED limited
        ELSE /\ limited' = limited + 1
             /\ UNCHANGED passed

\* run_research(query): the "Run Research Directly" button of session s.
RunResearch(s, query) ==
    /\ RunsStarted < MaxRuns
    /\ NewRun
    /\ context_run' = << >>
    /\ UNCHANGED <<clarifying_state, buttons, clock>>
    /\ UNCHANGED <<run_pc, log, query_timestamps, run_query, tasks, completed,
                   num_completed, results, report>>
    /\ UNCHANGED not_ui

\* run_research_with_context(): the "Run Research with Context" button of
\* session s.
RunResearchWithContext(s) ==
    /\ buttons[s].run_with_context_button
    /\ RunsStarted < MaxRuns
    /\ IF NoQuestions
       THEN /\ context_run' = <<[session |-> s, ran |-> FALSE,
                                 original_query |-> "", questions |-> << >>,
                                 answers |-> << >>,
                                 refined |-> refine_query_with_answers("", << >>, << >>)]>>
            /\ UNCHANGED <<passed, limited>>
       ELSE /\ context_run' = <<[session |-> s, ran |-> TRUE,
                                 original_query |-> clarifying_state.original_query,
                                 questions |-> clarifying_state.questions,
                                 answers |-> clarifying_state.answers,
                                 refined |-> refine_query_with_answers(
                                                clarifying_state.original_query,
                                                clarifying_state.questions,
                                                clarifying_state.answers)]>>
            /\ NewRun
    /\ UNCHANGED <<clarifying_state, buttons, clock>>
    /\ UNCHANGED <<run_pc, log, query_timestamps, run_query, tasks, completed,
                   num_completed, results, report>>
    /\ UNCHANGED not_ui

\* Time passes.
Tick(d) ==
    /\ clock + d <= MaxClock
    /\ clock' = clock + d
    /\ passed' = SelectSeq(passed, LAMBDA t : clock' - t < RateWindow)
    /\ context_run' = << >>
    /\ UNCHANGED <<clarifying_state, buttons, limited>>
    /\ UNCHANGED <<run_pc, log, query_timestamps, run_query, tasks, completed,
                   num_completed, results, report>>
    /\ UNCHANGED not_ui

\* What generate_questions may return. The number of questions is varied
\* only where the questions are used.
Generated ==
    { [raised |-> TRUE, should_ask |-> FALSE, confidence_score |-> 0, n |-> 0] }
    \cup { r \in [raised : {FALSE}, should_ask : BOOLEAN,
                  confidence_score : {CONFIDENCE_THRESHOLD - 1, CONFIDENCE_THRESHOLD},
                  n : 0..MaxQuestions] :
              should_ask_questions(r) \/ r.n = MaxQuestions }

\* The module has been imported and the UI launched: no session has acted.
UiInit ==
    /\ clarifying_state = [questions |-> << >>, answers |-> << >>,
                           current_index |-> 0, original_query |-> ""]
    /\ buttons = [s \in Sessions |-> Widgets("", FALSE, FALSE, FALSE)]
    /\ context_run = << >>
    /\ passed = << >>
    /\ limited = 0

UiNext ==
    \/ \E s \in Sessions : \E q \in {"", SessionQuery(s)}, gen \in Generated :
          StartClarifyingQuestions(s, q, gen)
    \/ \E s \in Sessions : \E a \in {"", SessionAnswer(s)} : SubmitAnswer(s, a)
    \/ \E s \in Sessions : RunResearch(s, SessionQuery(s))
    \/ \E s \in Sessions : RunResearchWithContext(s)
    \/ \E d \in TickSteps : Tick(d)

(***************************************************************************)
(* Claims about the deep research UI process                               *)
(***************************************************************************)
\* C5: the rate limit is process-global: of the runs started in the process
\* through run_research and run_research_with_context, at most
\* max_queries_per_hour pass the rate-limit check within one hour.
C5_GlobalRateLimit == Len(passed) <= max_queries_per_hour

\* C6: no state is shared between UI sessions: the original query, the
\* questions and the answers a session's run_research_with_context uses are
\* that session's own.
C6_SessionIsolation ==
    \A i \in 1..Len(context_run) :
        LET r == context_run[i]
        IN  r.ran =>
              /\ r.original_query = SessionQuery(r.session)
              /\ \A k \in 1..Len(r.questions) : r.questions[k].about = SessionQuery(r.session)
              /\ \A k \in 1..Len(r.answers) : r.answers[k] \in {"", SessionAnswer(r.session)}

\* start_clarifying_questions was the handler that made the 'Run Research
\* with Context' button of session s visible.
ShownByStart(s) ==
    /\ buttons[s].run_with_context_button
    /\ buttons[s].clarifying_output = "No clarifying questions needed!"

\* C19: when start_clarifying_questions has made the 'Run Research with
\* Context' button visible, a following run_research_with_context
\* researches the query passed to that start_clarifying_questions call: not
\* an earlier query, and not the 'No clarifying questions answered.'
\* fallback.
C19_ContextRunUsesLatestQuery ==
    \A i \in 1..Len(context_run) :
        LET r == context_run[i]
        IN  ShownByStart(r.session)
              => (r.ran /\ r.refined.query = SessionQuery(r.session))

SummaryShown(s) == buttons[s].clarifying_output = "All Questions Answered"

\* C23: after any sequence of start_clarifying_questions and submit_answer
\* calls the number of stored answers equals current_index and does not
\* exceed the number of questions, and a session sees the summary and the
\* 'Run Research with Context' button exactly when current_index equals the
\* number of questions.
C23_AnswersFollowQuestions ==
    /\ Len(clarifying_state.answers) = clarifying_state.current_index
    /\ clarifying_state.current_index <= Len(clarifying_state.questions)
    /\ \A s \in Sessions :
          /\ SummaryShown(s) <=> buttons[s].run_with_context_button
          /\ SummaryShown(s)
               => clarifying_state.current_index = Len(clarifying_state.questions)

(***************************************************************************)
(* research_agent_with_updates: generate_responses streams what the        *)
(* background run_agent task puts on an asyncio.Queue.                     *)
(***************************************************************************)
\* The tools of research_agent.
AgentTools == {"search_planning_tool", "search_tool", "write_report_tool", "send_email_tool"}

\* Cap on the tool calls of one agent run.
MaxToolCalls == 2

AgentInputs == {"ai in healthcare", "quantum computing"}

\* Sentinel to signal end of stream.
END_OF_STREAM == [kind |-> "END_OF_STREAM", of |-> None]

ToolStartingMsg(tool) == [kind |-> "Starting", of |-> tool]

ToolCompletedMsg(tool) == [kind |-> "Completed", of |-> tool]

final_output(input) == [kind |-> "final_output", of |-> input]

NoTask == [status |-> "none", input |-> "", tool |-> None, calls |-> 0]

\* generate_responses up to its first await: the queue is created and
\* run_agent is started as a background task. A new call is made once the
\* previous one has returned or raised.
GenerateResponses(input) ==
    /\ gen_pc \in {"none", "returned", "raised"}
    /\ queue' = << >>
    /\ task' = [status |-> "running", input |-> input, tool |-> None, calls |-> 0]
    /\ gen_pc' = "queue.get"
    /\ streamed' = << >>
    /\ UNCHANGED not_ag

\* ResearchRunHook.on_tool_start, called by the run when a tool starts.
on_tool_start(tool) ==
    /\ task.status = "running"
    /\ task.calls < MaxToolCalls
    /\ queue' = Append(queue, ToolStartingMsg(tool))
    /\ task' = [task EXCEPT !.status = "in tool", !.tool = tool]
    /\ UNCHANGED <<gen_pc, streamed>>
    /\ UNCHANGED not_ag

\* ResearchRunHook.on_tool_end, called by the run when the tool completes.
on_tool_end ==
    /\ task.status = "in tool"
    /\ queue' = Append(queue, ToolCompletedMsg(task.tool))
    /\ task' = [task EXCEPT !.status = "running", !.tool = None, !.calls = @ + 1]
    /\ UNCHANGED <<gen_pc, streamed>>
    /\ UNCHANGED not_ag

\* Runner.run returns: run_agent queues the final output and the sentinel.
RunAgentReturns ==
    /\ task.status = "running"
    /\ queue' = queue \o <<final_output(task.input), END_OF_STREAM>>
    /\ task' = [task EXCEPT !.status = "done"]
    /\ UNCHANGED <<gen_pc, streamed>>
    /\ UNCHANGED not_ag

\* Runner.run raises: run_agent ends with the exception, queueing nothing.
RunAgentRaises ==
    /\ task.status = "running"
    /\ task' = [task EXCEPT !.status = "raised"]
    /\ UNCHANGED <<queue, gen_pc, streamed>>
    /\ UNCHANGED not_ag

\* One turn of the while loop of generate_responses: queue.get() returns
\* once the queue holds a message; the sentinel breaks the loop, any other
\* message is yielded.
QueueGet ==
    /\ gen_pc = "queue.get"
    /\ queue # << >>
    /\ queue' = Tail(queue)
    /\ IF Head(queue) = END_OF_STREAM
         THEN gen_pc' = "await task" /\ UNCHANGED streamed
         ELSE streamed' = Append(streamed, Head(queue)) /\ UNCHANGED gen_pc
    /\ UNCHANGED task
    /\ UNCHANGED not_ag

\* await task after the loop: returns when the task is done, re-raises the
\* task's exception.
AwaitTask ==
    /\ gen_pc = "await task"
    /\ task.status \in {"done", "raised"}
    /\ gen_pc' = IF task.status = "raised" THEN "raised" ELSE "returned"
    /\ UNCHANGED <<queue, task, streamed>>
    /\ UNCHANGED not_ag

AgInit ==
    /\ queue = << >>
    /\ task = NoTask
    /\ gen_pc = "none"
    /\ streamed = << >>

AgNext ==
    \/ \E input \in AgentInputs : GenerateResponses(input)
    \/ \E tool \in AgentTools : on_tool_start(tool)
    \/ on_tool_end
    \/ RunAgentReturns
    \/ RunAgentRaises
    \/ QueueGet
    \/ AwaitTask

\* The event loop runs a coroutine whose await can complete.
AgFairness == WF_vars(QueueGet) /\ WF_vars(AwaitTask)

(***************************************************************************)
(* Claims about research_agent_with_updates                                *)
(***************************************************************************)
\* C7: generate_responses always finishes once the background run_agent
\* task has finished: it returns after a normal finish and raises the
\* task's exception when the agent run raised.
C7_GeneratorFinishes ==
    /\ (task.status = "done") ~> (gen_pc = "returned")
    /\ (task.status = "raised") ~> (gen_pc = "raised")

(***************************************************************************)
(* Specifications                                                          *)
(***************************************************************************)
UiIdle ==
    /\ clarifying_state = [questions |-> << >>, answers |-> << >>,
                           current_index |-> 0, original_query |-> ""]
    /\ buttons = << >>
    /\ context_run = << >>
    /\ passed = << >>
    /\ limited = 0

AgIdle == AgInit

InitSidekick == SkInit /\ RunInit /\ UiIdle /\ AgIdle

SpecSidekick == InitSidekick /\ [][SkNext]_vars

InitRun == SkIdle /\ RunInit /\ UiIdle /\ AgIdle

SpecRun == InitRun /\ [][RunNext]_vars

InitUi == SkIdle /\ RunInit /\ UiInit /\ AgIdle

SpecUi == InitUi /\ [][UiNext]_vars

InitAgent == SkIdle /\ RunInit /\ UiIdle /\ AgInit

SpecAgent == InitAgent /\ [][AgNext]_vars /\ AgFairness

InitGuard == SkIdle /\ RunInit /\ UiIdle /\ AgIdle

SpecGuard == InitGuard /\ [][GuardNext]_vars

InitManager == SkIdle /\ RunInit /\ UiIdle /\ AgIdle

SpecManager == InitManager /\ [][ManagerNext]_vars
====
